---------------------------- MODULE Spec2Model ----------------------------
(***************************************************************************)
(* Model of Source/Tools/BindingGenerator/ASUtils.cpp: the conversion of   *)
(* C++ types to AngelScript declarations (CppPrimitiveTypeToAS,            *)
(* IsKnownCppType, CppVariableToAS, CppTypeToAS, CppValueToAS), the        *)
(* wrapper naming scheme (GenerateWrapperName) and the wrapper source      *)
(* generator (GenerateWrapper).  C++ strings are TLA+ strings; the         *)
(* functions are operators computed the way the code computes them.        *)
(***************************************************************************)
EXTENDS Integers, Sequences, FiniteSets

VARIABLES
    op,              \* which entry point the driver exercises in this run
    classesByName_,  \* SourceData::classesByName_ : class name -> class data
    enums_,          \* SourceData::enums_ : set of enum names
    usings_,         \* SourceData::usings_ : set of using-alias names
    NDEBUG,          \* TRUE when the build compiles assert() away
    type,            \* the TypeAnalyzer handed to the converters
    name,            \* variable name handed to CppVariableToAS
    usage,           \* VariableUsage / TypeUsage
    defaultValue,    \* default value handed to CppVariableToAS
    converted,       \* outcome of CppVariableToAS, NotRun before the call
    asType,          \* outcome of CppTypeToAS, NotRun before the call
    fn,              \* the function analyzer handed to the wrapper generator
    templateVersion, \* the templateVersion argument of the method overloads
    overloads,       \* the overloads of one function name to synthesize names for
    wrapperNames,    \* names synthesized so far, one per overload
    wrapper          \* outcome of GenerateWrapper, NotRun before the call

vars == <<op, classesByName_, enums_, usings_, NDEBUG, type, name, usage,
          defaultValue, converted, asType, fn, templateVersion, overloads,
          wrapperNames, wrapper>>

-----------------------------------------------------------------------------
(* Bounds *)

\* largest number of parameters of a modelled function
MaxParams == 2

-----------------------------------------------------------------------------
(* String helpers (Utils.h: StartsWith, EndsWith, Contains, ReplaceAll) *)

StartsWith(str, value) ==
    /\ Len(value) <= Len(str)
    /\ SubSeq(str, 1, Len(value)) = value

EndsWith(str, value) ==
    /\ Len(value) <= Len(str)
    /\ SubSeq(str, Len(str) - Len(value) + 1, Len(str)) = value

\* positions at or after from where substr occurs in str
OccurrencesFrom(str, substr, from) ==
    {i \in from..(Len(str) - Len(substr) + 1) :
        SubSeq(str, i, i + Len(substr) - 1) = substr}

\* 1-based position of the first occurrence of substr at or after from, 0 if none
FindFrom(str, substr, from) ==
    LET hits == OccurrencesFrom(str, substr, from) IN
    IF hits = {} THEN 0
    ELSE CHOOSE i \in hits : \A j \in hits : i <= j

Find(str, substr) == FindFrom(str, substr, 1)

Contains(str, substr) == Find(str, substr) # 0

\* every non-overlapping occurrence of from, scanning left to right
RECURSIVE ReplaceAll(_, _, _)
ReplaceAll(str, from, to) ==
    LET pos == Find(str, from) IN
    IF pos = 0 THEN str
    ELSE SubSeq(str, 1, pos - 1) \o to
         \o ReplaceAll(SubSeq(str, pos + Len(from), Len(str)), from, to)

\* characters matched by the regex class \w
WordChars ==
    {"a","b","c","d","e","f","g","h","i","j","k","l","m","n","o","p","q","r",
     "s","t","u","v","w","x","y","z","A","B","C","D","E","F","G","H","I","J",
     "K","L","M","N","O","P","Q","R","S","T","U","V","W","X","Y","Z","0","1",
     "2","3","4","5","6","7","8","9","_"}

IsWord(str) ==
    /\ Len(str) > 0
    /\ \A i \in 1..Len(str) : SubSeq(str, i, i) \in WordChars

\* mutant: the regex has no capture group, so a match has size 1
regex_match_NoGroup(str, prefix, suffix) ==
    LET mid == SubSeq(str, Len(prefix) + 1, Len(str) - Len(suffix)) IN
    IF /\ Len(str) > Len(prefix) + Len(suffix)
       /\ StartsWith(str, prefix)
       /\ EndsWith(str, suffix)
       /\ IsWord(mid)
    THEN [size |-> 1, sub |-> ""]
    ELSE [size |-> 0, sub |-> ""]

\* regex_match(str, match, regex(prefix (\w+) suffix)): the whole string must
\* match; size is match.size(), sub is match[1]
regex_match(str, prefix, suffix) ==
    LET mid == SubSeq(str, Len(prefix) + 1, Len(str) - Len(suffix)) IN
    IF /\ Len(str) > Len(prefix) + Len(suffix)
       /\ StartsWith(str, prefix)
       /\ EndsWith(str, suffix)
       /\ IsWord(mid)
    THEN [size |-> 2, sub |-> mid]
    ELSE [size |-> 0, sub |-> ""]

-----------------------------------------------------------------------------
(* Primitive table *)

PrimitiveNames ==
    {"bool", "char", "signed char", "unsigned char", "short", "unsigned short",
     "int", "unsigned", "unsigned int", "long long", "unsigned long long",
     "float", "double", "long", "unsigned long", "size_t", "SDL_JoystickID"}

\* thrown = TRUE models "throw Exception(cppType + " not a primitive type")"
CppPrimitiveTypeToAS(cppType) ==
    IF cppType = "bool" THEN [thrown |-> FALSE, value |-> "bool"]
    ELSE IF cppType = "char" \/ cppType = "signed char"
        THEN [thrown |-> FALSE, value |-> "int8"]
    ELSE IF cppType = "unsigned char" THEN [thrown |-> FALSE, value |-> "uint8"]
    ELSE IF cppType = "short" THEN [thrown |-> FALSE, value |-> "int16"]
    ELSE IF cppType = "unsigned short" THEN [thrown |-> FALSE, value |-> "uint16"]
    ELSE IF cppType = "int" THEN [thrown |-> FALSE, value |-> "int"]
    ELSE IF cppType = "unsigned" \/ cppType = "unsigned int"
        THEN [thrown |-> FALSE, value |-> "uint"]
    ELSE IF cppType = "long long" THEN [thrown |-> FALSE, value |-> "int64"]
    ELSE IF cppType = "unsigned long long" THEN [thrown |-> FALSE, value |-> "uint64"]
    ELSE IF cppType = "float" THEN [thrown |-> FALSE, value |-> "float"]
    ELSE IF cppType = "double" THEN [thrown |-> FALSE, value |-> "double"]
    ELSE IF cppType = "long" THEN [thrown |-> FALSE, value |-> "long"]
    ELSE IF cppType = "unsigned long" THEN [thrown |-> FALSE, value |-> "ulong"]
    ELSE IF cppType = "size_t" THEN [thrown |-> FALSE, value |-> "size_t"]
    ELSE IF cppType = "SDL_JoystickID" THEN [thrown |-> FALSE, value |-> "SDL_JoystickID"]
    ELSE [thrown |-> TRUE, value |-> ""]

\* try { as = CppPrimitiveTypeToAS(cpp); } catch (...) { as = cpp; }
PrimitiveOrSelf(cppType) ==
    IF CppPrimitiveTypeToAS(cppType).thrown THEN cppType
    ELSE CppPrimitiveTypeToAS(cppType).value

-----------------------------------------------------------------------------
(* Type resolver *)

\* mutant: the types registered in Manual.cpp are missing from the list
_knownTypes_NoManual ==
    {"void", "bool", "char", "signed char", "unsigned char", "short",
     "unsigned short", "int", "unsigned", "unsigned int", "long long",
     "unsigned long long", "float", "double", "VariantMap"}

_knownTypes ==
    {"void", "bool", "size_t", "char", "signed char", "unsigned char", "short",
     "unsigned short", "int", "long", "unsigned", "unsigned int",
     "unsigned long", "long long", "unsigned long long", "float", "double",
     "SDL_JoystickID", "VariantMap"}

IsUsing(identifier) == identifier \in usings_

\* mutant: the "Flags" suffix rule is missing
IsKnownCppType_NoFlags(n) ==
    IF n \in _knownTypes THEN TRUE
    ELSE IF n \in DOMAIN classesByName_ THEN TRUE
    ELSE IF n \in enums_ THEN TRUE
    ELSE FALSE

IsKnownCppType(n) ==
    IF n \in _knownTypes THEN TRUE
    ELSE IF n \in DOMAIN classesByName_ THEN TRUE
    ELSE IF n \in enums_ THEN TRUE
    ELSE IF EndsWith(n, "Flags") THEN TRUE
    ELSE FALSE

\* found = FALSE models the empty shared_ptr
FindClassByName(n) ==
    IF n \in DOMAIN classesByName_
    THEN [found |-> TRUE, IsInternal |-> classesByName_[n].IsInternal,
          IsRefCounted |-> classesByName_[n].IsRefCounted,
          GetComment |-> classesByName_[n].GetComment]
    ELSE [found |-> FALSE, IsInternal |-> FALSE, IsRefCounted |-> FALSE,
          GetComment |-> ""]

-----------------------------------------------------------------------------
(* Default-value translator *)

CppValueToAS(cppValue) ==
    IF cppValue = "nullptr" THEN "null"
    ELSE IF cppValue = "Variant::emptyVariantMap" THEN "VariantMap()"
    ELSE IF cppValue = "NPOS" THEN "String::NPOS"
    ELSE cppValue

-----------------------------------------------------------------------------
(* TypeAnalyzer *)

FunctionParameter == "FunctionParameter"
FunctionReturn == "FunctionReturn"

\* TypeAnalyzer::ToString(): the full textual form of the type occurrence
ToString(t) ==
    (IF t.IsConst THEN "const " ELSE "") \o t.GetNameWithTemplateParams
    \o (IF t.IsRvalueReference THEN "&&"
        ELSE IF t.IsDoublePointer THEN "**"
        ELSE IF t.IsRefToPointer THEN "*&"
        ELSE IF t.IsPointer THEN "*"
        ELSE IF t.IsReference THEN "&"
        ELSE "")

-----------------------------------------------------------------------------
(* Variable converter *)

\* mutant: the denylist check is forgotten
IsDenylisted_Never(cppSubtypeName) == FALSE

\* if (cppSubtypeName == "WorkItem") // TODO autodetect
IsDenylisted(cppSubtypeName) == cppSubtypeName = "WorkItem"

\* mutant: any catalog class is taken for a handle class
IsHandleClass_AnyClass(analyzer) == analyzer.found

\* analyzer && (analyzer->IsRefCounted() || Contains(analyzer->GetComment(), "FAKE_REF"))
IsHandleClass(analyzer) ==
    analyzer.found /\ (analyzer.IsRefCounted
                       \/ Contains(analyzer.GetComment, "FAKE_REF"))

\* mutant: the glue statement is never stored in the result
Converted_NoGlue(asDeclaration, newCppDeclaration, glue) ==
    [status |-> "ok", asDeclaration_ |-> asDeclaration,
     newCppDeclaration_ |-> newCppDeclaration, glue_ |-> ""]

\* return result;
Converted(asDeclaration, newCppDeclaration, glue) ==
    [status |-> "ok", asDeclaration_ |-> asDeclaration,
     newCppDeclaration_ |-> newCppDeclaration, glue_ |-> glue]

\* throw Exception(...): the caller can catch it
Thrown ==
    [status |-> "exception", asDeclaration_ |-> "", newCppDeclaration_ |-> "",
     glue_ |-> ""]

\* a failed assert(): the process is aborted
Aborted ==
    [status |-> "abort", asDeclaration_ |-> "", newCppDeclaration_ |-> "",
     glue_ |-> ""]

\* assert(cond) followed by the rest of the function: without NDEBUG a false
\* condition aborts, with NDEBUG the condition is not evaluated
Assert_(cond, rest) == IF ~NDEBUG /\ ~cond THEN Aborted ELSE rest

\* if (!defaultValue.empty()) { defaultValue = CppValueToAS(defaultValue);
\*   defaultValue = ReplaceAll(defaultValue, "\"", "\\\""); decl += " = " + defaultValue; }
AppendDefault(asDeclaration, dv) ==
    IF dv # ""
    THEN asDeclaration \o " = " \o ReplaceAll(CppValueToAS(dv), "\"", "\\\"")
    ELSE asDeclaration

\* lines 413-502 of CppVariableToAS: the general fallback
VariableFallback(t, u, dv) ==
    LET cppTypeName == t.GetNameWithTemplateParams
        analyzer == FindClassByName(cppTypeName)
        asTypeName == PrimitiveOrSelf(cppTypeName)
        decl0 == asTypeName
        decl1 == IF t.IsReference THEN decl0 \o "&"
                 ELSE IF t.IsPointer THEN decl0 \o "@+"
                 ELSE decl0
        decl2 == IF u = FunctionReturn /\ t.IsConst /\ ~t.IsPointer
                 THEN "const " \o decl1 ELSE decl1
    IN
    IF cppTypeName = "Context" /\ u = FunctionReturn THEN Thrown
    ELSE IF ~IsKnownCppType(cppTypeName) THEN Thrown
    ELSE IF analyzer.found /\ analyzer.IsInternal THEN Thrown
    ELSE IF analyzer.found /\ Contains(analyzer.GetComment, "NO_BIND") THEN Thrown
    ELSE IF IsUsing(cppTypeName) /\ cppTypeName # "VariantMap" THEN Thrown
    ELSE IF asTypeName = "void" /\ t.IsPointer THEN Thrown
    ELSE IF Contains(asTypeName, "<") THEN Thrown
    ELSE IF Contains(ToString(t), "::") THEN Thrown
    ELSE IF t.IsConst /\ t.IsReference /\ u = FunctionParameter
        THEN Converted(AppendDefault("const " \o asTypeName \o "&in", dv), "", "")
    ELSE IF /\ ~t.IsReference
            /\ t.IsPointer
            /\ ~IsHandleClass(FindClassByName(cppTypeName))
        THEN Thrown
    ELSE Converted(AppendDefault(decl2, dv), "", "")

\* lines 308-411 of CppVariableToAS: the Context check and the container
\* parameter rules
VariableParameterRules(t, n, u, dv) ==
    LET cppTypeName == t.GetNameWithTemplateParams
        newCppVarName == n \o "_conv"
        newCpp == "CScriptArray* " \o newCppVarName
        isConstRefParam == t.IsConst /\ t.IsReference /\ u = FunctionParameter
        pod == regex_match(cppTypeName, "PODVector<", ">")
        podPtr == regex_match(cppTypeName, "PODVector<", "*>")
        vecShared == regex_match(cppTypeName, "Vector<SharedPtr<", ">>")
    IN
    IF cppTypeName = "Context" /\ u = FunctionParameter THEN Thrown
    ELSE IF cppTypeName = "Vector<String>" /\ isConstRefParam
        THEN LET res == Converted("Array<String>@+", newCpp,
                            "    " \o cppTypeName \o " " \o n
                            \o " = ArrayToVector<String>(" \o newCppVarName \o ");\n")
             IN IF dv # ""
                THEN Assert_(dv = "Vector< String >()",
                             [res EXCEPT !.asDeclaration_ = @ \o " = null"])
                ELSE res
    ELSE IF pod.size = 2 /\ isConstRefParam
        THEN Assert_(dv = "",
                Converted("Array<" \o PrimitiveOrSelf(pod.sub) \o ">@+", newCpp,
                    "    " \o cppTypeName \o " " \o n \o " = ArrayToPODVector<"
                    \o pod.sub \o ">(" \o newCppVarName \o ");\n"))
    ELSE IF podPtr.size = 2 /\ isConstRefParam
        THEN Assert_(dv = "",
                Converted("Array<" \o PrimitiveOrSelf(podPtr.sub) \o "@>@", newCpp,
                    "    " \o cppTypeName \o " " \o n \o " = ArrayToPODVector<"
                    \o podPtr.sub \o "*>(" \o newCppVarName \o ");\n"))
    ELSE IF vecShared.size = 2 /\ isConstRefParam
        THEN IF IsDenylisted(vecShared.sub) THEN Thrown
             ELSE Assert_(dv = "",
                Converted("Array<" \o PrimitiveOrSelf(vecShared.sub) \o "@>@+", newCpp,
                    "    " \o cppTypeName \o " " \o n \o " = HandleArrayToVector<"
                    \o vecShared.sub \o ">(" \o newCppVarName \o ");\n"))
    ELSE VariableFallback(t, u, dv)

\* lines 193-306 of CppVariableToAS: void and the return rules
VariableReturnRules(t, n, u, dv) ==
    LET cppTypeName == t.GetNameWithTemplateParams
        isReturn == u = FunctionReturn
        shared == regex_match(cppTypeName, "SharedPtr<", ">")
        vecShared == regex_match(cppTypeName, "Vector<SharedPtr<", ">>")
        podPtr == regex_match(cppTypeName, "PODVector<", "*>")
        pod == regex_match(cppTypeName, "PODVector<", ">")
    IN
    IF cppTypeName = "void" /\ ~t.IsPointer /\ isReturn
        THEN Converted("void", "", "")
    ELSE IF /\ (cppTypeName = "Vector<String>" \/ cppTypeName = "StringVector")
            /\ ~t.IsPointer /\ isReturn
        THEN Converted("Array<String>@", "CScriptArray*",
                       "return VectorToArray<String>(result, \"Array<String>\");\n")
    ELSE IF shared.size = 2 /\ isReturn
        THEN IF IsDenylisted(shared.sub) THEN Thrown
             ELSE Converted(PrimitiveOrSelf(shared.sub) \o "@+", shared.sub \o "*",
                            "return result.Detach();\n")
    ELSE IF vecShared.size = 2 /\ isReturn
        THEN Converted("Array<" \o PrimitiveOrSelf(vecShared.sub) \o "@>@",
                       "CScriptArray*",
                       "return VectorToHandleArray(result, \"Array<"
                       \o PrimitiveOrSelf(vecShared.sub) \o "@>\");\n")
    ELSE IF podPtr.size = 2 /\ isReturn
        THEN Converted("Array<" \o PrimitiveOrSelf(podPtr.sub) \o "@>@",
                       "CScriptArray*",
                       "return VectorToHandleArray(result, \"Array<"
                       \o PrimitiveOrSelf(podPtr.sub) \o "@>\");\n")
    ELSE IF pod.size = 2 /\ (t.IsConst = t.IsReference) /\ isReturn
        THEN Converted("Array<" \o PrimitiveOrSelf(pod.sub) \o ">@",
                       "CScriptArray*",
                       "return VectorToArray(result, \"Array<"
                       \o PrimitiveOrSelf(pod.sub) \o ">\");\n")
    ELSE VariableParameterRules(t, n, u, dv)

\* mutant: reference-to-pointer is not checked
UnbindableQualifier_NoRefToPointer(t) ==
    t.IsRvalueReference \/ t.IsDoublePointer

\* if (type.IsRvalueReference() || type.IsDoublePointer() || type.IsRefToPointer())
UnbindableQualifier(t) ==
    t.IsRvalueReference \/ t.IsDoublePointer \/ t.IsRefToPointer

CppVariableToAS(t, n, u, dv) ==
    IF UnbindableQualifier(t) THEN Thrown
    ELSE VariableReturnRules(t, n, u, dv)

-----------------------------------------------------------------------------
(* Declaration-only converter *)

TypeConverted(decl) == [status |-> "ok", value |-> decl]

TypeThrown == [status |-> "exception", value |-> ""]

CppTypeToAS(t, typeUsage) ==
    LET cppTypeName == t.GetNameWithTemplateParams
        analyzer == FindClassByName(cppTypeName)
        asTypeName == PrimitiveOrSelf(cppTypeName)
        result0 == asTypeName
        result1 == IF t.IsReference THEN result0 \o "&"
                   ELSE IF t.IsPointer THEN result0 \o "@+"
                   ELSE result0
        result2 == IF typeUsage = FunctionReturn /\ t.IsConst /\ ~t.IsPointer
                   THEN "const " \o result1 ELSE result1
    IN
    IF UnbindableQualifier(t) THEN TypeThrown
    ELSE IF cppTypeName = "Context" /\ typeUsage = FunctionReturn THEN TypeThrown
    ELSE IF ~IsKnownCppType(cppTypeName) THEN TypeThrown
    ELSE IF analyzer.found /\ analyzer.IsInternal THEN TypeThrown
    ELSE IF analyzer.found /\ Contains(analyzer.GetComment, "NO_BIND") THEN TypeThrown
    ELSE IF IsUsing(cppTypeName) /\ cppTypeName # "VariantMap" THEN TypeThrown
    ELSE IF asTypeName = "void" /\ t.IsPointer THEN TypeThrown
    ELSE IF Contains(asTypeName, "<") THEN TypeThrown
    ELSE IF Contains(ToString(t), "::") THEN TypeThrown
    ELSE IF t.IsConst /\ t.IsReference /\ typeUsage = FunctionParameter
        THEN TypeConverted("const " \o asTypeName \o "&in")
    ELSE IF /\ ~t.IsReference
            /\ t.IsPointer
            /\ ~IsHandleClass(FindClassByName(cppTypeName))
        THEN TypeThrown
    ELSE TypeConverted(result2)

-----------------------------------------------------------------------------
(* Naming scheme *)

RECURSIVE ParamSuffixes(_, _)
\* for (ParamAnalyzer param : params) result += "_" + sanitized type name
ParamSuffixes(params, i) ==
    IF i > Len(params) THEN ""
    ELSE LET t0 == params[i].GetType.GetNameWithTemplateParams
             t1 == ReplaceAll(t0, " ", "")
             t2 == ReplaceAll(t1, "::", "")
             t3 == ReplaceAll(t2, "<", "")
             t4 == ReplaceAll(t3, ">", "")
             t5 == ReplaceAll(t4, "*", "")
         IN "_" \o t5 \o ParamSuffixes(params, i + 1)

\* mutant: a function without parameters gets no suffix
GenerateFunctionWrapperName_NoVoid(f) ==
    f.GetName \o ParamSuffixes(f.GetParams, 1)

GenerateFunctionWrapperName(f) ==
    IF Len(f.GetParams) = 0 THEN f.GetName \o "_void"
    ELSE f.GetName \o ParamSuffixes(f.GetParams, 1)

GenerateWrapperName_Global(f) == GenerateFunctionWrapperName(f)

GenerateWrapperName_Static(f) ==
    f.GetClassName \o "_" \o GenerateFunctionWrapperName(f)

GenerateWrapperName_Method(f, tv) ==
    IF tv
    THEN f.GetClassName \o "_" \o GenerateFunctionWrapperName(f) \o "_template"
    ELSE f.GetClassName \o "_" \o GenerateFunctionWrapperName(f)

-----------------------------------------------------------------------------
(* Wrapper generator *)

\* glueReturnType of the three GenerateWrapper overloads
GlueReturnType(f, convertedReturn) ==
    IF convertedReturn.newCppDeclaration_ # ""
    THEN convertedReturn.newCppDeclaration_
    ELSE ToString(f.GetReturnType)

RECURSIVE ParamDecls(_, _, _, _)
\* the parameter list of the wrapper signature; commaFirst is TRUE where the
\* loop emits ", " before every parameter (the method overload, after "ptr")
ParamDecls(params, convertedParams, i, commaFirst) ==
    IF i > Len(convertedParams) THEN ""
    ELSE (IF i # 1 \/ commaFirst THEN ", " ELSE "")
         \o (IF convertedParams[i].newCppDeclaration_ # ""
             THEN convertedParams[i].newCppDeclaration_
             ELSE ToString(params[i].GetType) \o " " \o params[i].GetDeclname)
         \o ParamDecls(params, convertedParams, i + 1, commaFirst)

RECURSIVE ParamGlue(_, _)
\* for (i...) result += convertedParams[i].glue_;
ParamGlue(convertedParams, i) ==
    IF i > Len(convertedParams) THEN ""
    ELSE convertedParams[i].glue_ \o ParamGlue(convertedParams, i + 1)

RECURSIVE CallArgs_DropLast(_, _, _)
\* mutant: the loop stops one parameter early
CallArgs_DropLast(params, convertedParams, i) ==
    IF i + 1 > Len(convertedParams) THEN ""
    ELSE (IF i # 1 THEN ", " ELSE "") \o params[i].GetDeclname
         \o CallArgs_DropLast(params, convertedParams, i + 1)

RECURSIVE CallArgs(_, _, _)
\* the arguments of the forwarded call
CallArgs(params, convertedParams, i) ==
    IF i > Len(convertedParams) THEN ""
    ELSE (IF i # 1 THEN ", " ELSE "") \o params[i].GetDeclname
         \o CallArgs(params, convertedParams, i + 1)

\* the body shared by the three overloads, from ")\n{\n" to the closing brace;
\* callee is the text of the forwarded call before its "("
WrapperBody(f, convertedParams, convertedReturn, callee) ==
    LET glueReturnType == GlueReturnType(f, convertedReturn) IN
    ")\n" \o "{\n"
    \o ParamGlue(convertedParams, 1)
    \o (IF glueReturnType # "void"
        THEN "    " \o ToString(f.GetReturnType) \o " result = "
        ELSE "    ")
    \o callee \o "(" \o CallArgs(f.GetParams, convertedParams, 1) \o ");\n"
    \o (IF convertedReturn.glue_ # "" THEN "    " \o convertedReturn.glue_
        ELSE IF glueReturnType # "void" THEN "    return result;\n"
        ELSE "")
    \o "}"

GenerateWrapper_Global(f, convertedParams, convertedReturn) ==
    "static " \o GlueReturnType(f, convertedReturn) \o " "
    \o GenerateWrapperName_Global(f) \o "("
    \o ParamDecls(f.GetParams, convertedParams, 1, FALSE)
    \o WrapperBody(f, convertedParams, convertedReturn, f.GetName)

GenerateWrapper_Static(f, convertedParams, convertedReturn) ==
    (IF f.InsideDefine # "" THEN "#ifdef " \o f.InsideDefine \o "\n" ELSE "")
    \o "// " \o f.GetLocation \o "\n"
    \o "static " \o GlueReturnType(f, convertedReturn) \o " "
    \o GenerateWrapperName_Static(f) \o "("
    \o ParamDecls(f.GetParams, convertedParams, 1, FALSE)
    \o WrapperBody(f, convertedParams, convertedReturn,
                   f.GetClassName \o "::" \o f.GetName)
    \o "\n"
    \o (IF f.InsideDefine # "" THEN "#endif\n" ELSE "")
    \o "\n"

GenerateWrapper_Method(f, tv, convertedParams, convertedReturn) ==
    (IF f.InsideDefine # "" THEN "#ifdef " \o f.InsideDefine \o "\n" ELSE "")
    \o "// " \o f.GetLocation \o "\n"
    \o "static " \o GlueReturnType(f, convertedReturn) \o " "
    \o GenerateWrapperName_Method(f, tv) \o "(" \o f.GetClassName \o "* ptr"
    \o ParamDecls(f.GetParams, convertedParams, 1, TRUE)
    \o WrapperBody(f, convertedParams, convertedReturn, "ptr->" \o f.GetName)
    \o "\n"
    \o (IF f.InsideDefine # "" THEN "#endif\n" ELSE "")
    \o "\n"

-----------------------------------------------------------------------------
(* Inputs *)

\* base type names (TypeAnalyzer::GetNameWithTemplateParams) handed to the
\* converters: the primitive table, void, the container and handle shapes,
\* catalog names and names the catalog does not know
BaseNames ==
    PrimitiveNames \cup
    {"void", "VariantMap", "Vector<String>", "StringVector", "SharedPtr<Node>",
     "SharedPtr<WorkItem>", "SharedPtr<char>", "Vector<SharedPtr<Node>>",
     "Vector<SharedPtr<WorkItem>>", "PODVector<int>", "PODVector<Node*>",
     "Vector<int>", "Context", "Node", "Ray", "Detail", "Hidden", "Fake",
     "Mode", "VariantVector", "DragFlags", "MouseFlags", "Unknown", "Foo::Bar",
     "Foo::BarFlags"}

TypeAnalyzer(n, isConst, isReference, isPointer, isRvalue, isDouble, isRefToPtr) ==
    [GetNameWithTemplateParams |-> n, IsConst |-> isConst,
     IsReference |-> isReference, IsPointer |-> isPointer,
     IsRvalueReference |-> isRvalue, IsDoublePointer |-> isDouble,
     IsRefToPointer |-> isRefToPtr]

\* a type occurrence without the unbindable qualifiers
Plain(n, isConst, isReference, isPointer) ==
    TypeAnalyzer(n, isConst, isReference, isPointer, FALSE, FALSE, FALSE)

Types ==
    {TypeAnalyzer(n, c, r, p, rv, dp, rp) :
        n \in BaseNames, c \in BOOLEAN, r \in BOOLEAN, p \in BOOLEAN,
        rv \in BOOLEAN, dp \in BOOLEAN, rp \in BOOLEAN}

DefaultValues == {"", "nullptr", "Vector< String >()", "{}"}

ClassData(isInternal, isRefCounted, comment) ==
    [IsInternal |-> isInternal, IsRefCounted |-> isRefCounted,
     GetComment |-> comment]

\* a catalog as the engine's documentation yields it
EngineClasses ==
    [n \in {"Node", "Context", "WorkItem", "String", "Ray", "Detail", "Hidden",
            "Fake"} |->
        CASE n \in {"Node", "Context", "WorkItem"} -> ClassData(FALSE, TRUE, "")
          [] n \in {"String", "Ray"} -> ClassData(FALSE, FALSE, "")
          [] n = "Detail" -> ClassData(TRUE, TRUE, "")
          [] n = "Hidden" -> ClassData(FALSE, TRUE, "NO_BIND")
          [] n = "Fake" -> ClassData(FALSE, FALSE, "FAKE_REF")]

\* a catalog where the same names carry other data
OtherClasses ==
    [n \in {"Node", "Context", "DragFlags", "Foo::Bar", "Mode"} |->
        CASE n \in {"Node", "Context"} -> ClassData(FALSE, FALSE, "")
          [] n = "DragFlags" -> ClassData(TRUE, FALSE, "")
          [] n = "Foo::Bar" -> ClassData(FALSE, TRUE, "")
          [] n = "Mode" -> ClassData(FALSE, FALSE, "NO_BIND FAKE_REF")]

Catalogs ==
    {[classes |-> EngineClasses, enums |-> {"Mode"},
      usings |-> {"VariantMap", "StringVector", "VariantVector"}],
     [classes |-> OtherClasses, enums |-> {"Ray"},
      usings |-> {"MouseFlags", "Fake"}],
     [classes |-> <<>>, enums |-> {}, usings |-> {}]}

EngineCatalog ==
    [classes |-> EngineClasses, enums |-> {"Mode"},
     usings |-> {"VariantMap", "StringVector", "VariantVector"}]

Kinds == {"global", "static", "method"}

ParamNames == <<"names", "count", "node", "extra">>

\* parameter and return types of the functions handed to the wrapper generator
WrapperParamTypes ==
    {Plain("int", FALSE, FALSE, FALSE), Plain("Vector<String>", TRUE, TRUE, FALSE),
     Plain("Node", FALSE, FALSE, TRUE), Plain("Unknown", FALSE, FALSE, FALSE)}

WrapperReturnTypes ==
    {Plain("void", FALSE, FALSE, FALSE), Plain("int", FALSE, FALSE, FALSE),
     Plain("SharedPtr<Node>", FALSE, FALSE, FALSE),
     Plain("String", TRUE, TRUE, FALSE)}

\* parameter types of the overloads handed to the naming scheme
NamingParamTypes ==
    {Plain("unsigned int", FALSE, FALSE, FALSE),
     Plain("PODVector<Node*>", TRUE, TRUE, FALSE),
     Plain("PODVector<Node>", TRUE, TRUE, FALSE)}

\* parameter lists of at most MaxParams parameters over the given types
ParamLists(types) ==
    UNION {{[i \in 1..k |-> [GetType |-> ts[i], GetDeclname |-> ParamNames[i]]] :
                ts \in [1..k -> types]} : k \in 0..MaxParams}

FunctionAnalyzer(kind, params, returnType, insideDefine) ==
    [kind |-> kind,
     GetClassName |-> IF kind = "global" THEN "" ELSE "Scene",
     GetName |-> "Find",
     GetParams |-> params,
     GetReturnType |-> returnType,
     InsideDefine |-> insideDefine,
     GetLocation |-> "Scene.h"]

GuardMacros == {"", "URHO3D_PHYSICS"}

NoType == Plain("", FALSE, FALSE, FALSE)

NoFunction == FunctionAnalyzer("none", <<>>, NoType, "")

NotRun ==
    [status |-> "notrun", asDeclaration_ |-> "", newCppDeclaration_ |-> "",
     glue_ |-> ""]

TypeNotRun == [status |-> "notrun", value |-> ""]

WrapperNotRun == [status |-> "notrun", text |-> ""]

-----------------------------------------------------------------------------
(* State machine *)

InitCatalog(catalog) ==
    /\ classesByName_ = catalog.classes
    /\ enums_ = catalog.enums
    /\ usings_ = catalog.usings

InitResults ==
    /\ converted = NotRun
    /\ asType = TypeNotRun
    /\ wrapperNames = <<>>
    /\ wrapper = WrapperNotRun

\* one type occurrence to convert
InitConvert ==
    /\ op = "convert"
    /\ \E catalog \in Catalogs : InitCatalog(catalog)
    /\ NDEBUG \in BOOLEAN
    /\ type \in Types
    /\ usage \in {FunctionParameter, FunctionReturn}
    /\ \/ usage = FunctionParameter /\ name = "names" /\ defaultValue \in DefaultValues
       \/ usage = FunctionReturn /\ name = "" /\ defaultValue = ""
    /\ fn = NoFunction
    /\ templateVersion = FALSE
    /\ overloads = <<>>
    /\ InitResults

\* two overloads of one function name to synthesize wrapper names for
InitName ==
    /\ op = "name"
    /\ InitCatalog(EngineCatalog)
    /\ NDEBUG = TRUE
    /\ type = NoType /\ usage = FunctionReturn /\ name = "" /\ defaultValue = ""
    /\ fn = NoFunction
    /\ \E kind \in Kinds :
        /\ templateVersion \in (IF kind = "method" THEN BOOLEAN ELSE {FALSE})
        /\ \E p1 \in ParamLists(NamingParamTypes), p2 \in ParamLists(NamingParamTypes) :
            overloads = <<FunctionAnalyzer(kind, p1, Plain("void", FALSE, FALSE, FALSE), ""),
                          FunctionAnalyzer(kind, p2, Plain("void", FALSE, FALSE, FALSE), "")>>
    /\ InitResults

\* one function to generate a wrapper for
InitWrapper ==
    /\ op = "wrapper"
    /\ InitCatalog(EngineCatalog)
    /\ NDEBUG \in BOOLEAN
    /\ type = NoType /\ usage = FunctionReturn /\ name = "" /\ defaultValue = ""
    /\ \E kind \in Kinds :
        /\ templateVersion \in (IF kind = "method" THEN BOOLEAN ELSE {FALSE})
        /\ \E params \in ParamLists(WrapperParamTypes),
              returnType \in WrapperReturnTypes, macro \in GuardMacros :
            fn = FunctionAnalyzer(kind, params, returnType, macro)
    /\ overloads = <<>>
    /\ InitResults

Init == InitConvert \/ InitName \/ InitWrapper

catalogVars == <<classesByName_, enums_, usings_, NDEBUG>>

inputVars == <<op, type, name, usage, defaultValue, fn, templateVersion, overloads>>

\* the driver calls CppVariableToAS on the type occurrence
ConvertVariable ==
    /\ op = "convert"
    /\ converted.status = "notrun"
    /\ converted' = CppVariableToAS(type, name, usage, defaultValue)
    /\ UNCHANGED <<catalogVars, inputVars, asType, wrapperNames, wrapper>>

\* the driver calls CppTypeToAS on the type occurrence
ConvertType ==
    /\ op = "convert"
    /\ asType.status = "notrun"
    /\ asType' = CppTypeToAS(type, usage)
    /\ UNCHANGED <<catalogVars, inputVars, converted, wrapperNames, wrapper>>

NextOverload == overloads[Len(wrapperNames) + 1]

NameGlobalFunction ==
    /\ op = "name"
    /\ Len(wrapperNames) < Len(overloads)
    /\ NextOverload.kind = "global"
    /\ wrapperNames' = Append(wrapperNames, GenerateWrapperName_Global(NextOverload))
    /\ UNCHANGED <<catalogVars, inputVars, converted, asType, wrapper>>

NameStaticFunction ==
    /\ op = "name"
    /\ Len(wrapperNames) < Len(overloads)
    /\ NextOverload.kind = "static"
    /\ wrapperNames' = Append(wrapperNames, GenerateWrapperName_Static(NextOverload))
    /\ UNCHANGED <<catalogVars, inputVars, converted, asType, wrapper>>

NameMethod ==
    /\ op = "name"
    /\ Len(wrapperNames) < Len(overloads)
    /\ NextOverload.kind = "method"
    /\ wrapperNames' = Append(wrapperNames,
                              GenerateWrapperName_Method(NextOverload, templateVersion))
    /\ UNCHANGED <<catalogVars, inputVars, converted, asType, wrapper>>

\* the conversion results the driver hands to GenerateWrapper
ConvertedParams(f) ==
    [i \in 1..Len(f.GetParams) |->
        CppVariableToAS(f.GetParams[i].GetType, f.GetParams[i].GetDeclname,
                        FunctionParameter, "")]

ConvertedReturn(f) == CppVariableToAS(f.GetReturnType, "", FunctionReturn, "")

\* the driver generates a wrapper only when every conversion succeeded
AllConverted(f) ==
    /\ \A i \in 1..Len(f.GetParams) : ConvertedParams(f)[i].status = "ok"
    /\ ConvertedReturn(f).status = "ok"

WrapGlobalFunction ==
    /\ op = "wrapper"
    /\ fn.kind = "global"
    /\ wrapper.status = "notrun"
    /\ AllConverted(fn)
    /\ wrapper' = [status |-> "ok",
                   text |-> GenerateWrapper_Global(fn, ConvertedParams(fn),
                                                   ConvertedReturn(fn))]
    /\ UNCHANGED <<catalogVars, inputVars, converted, asType, wrapperNames>>

WrapStaticFunction ==
    /\ op = "wrapper"
    /\ fn.kind = "static"
    /\ wrapper.status = "notrun"
    /\ AllConverted(fn)
    /\ wrapper' = [status |-> "ok",
                   text |-> GenerateWrapper_Static(fn, ConvertedParams(fn),
                                                   ConvertedReturn(fn))]
    /\ UNCHANGED <<catalogVars, inputVars, converted, asType, wrapperNames>>

WrapMethod ==
    /\ op = "wrapper"
    /\ fn.kind = "method"
    /\ wrapper.status = "notrun"
    /\ AllConverted(fn)
    /\ wrapper' = [status |-> "ok",
                   text |-> GenerateWrapper_Method(fn, templateVersion,
                                                   ConvertedParams(fn),
                                                   ConvertedReturn(fn))]
    /\ UNCHANGED <<catalogVars, inputVars, converted, asType, wrapperNames>>

Next ==
    \/ ConvertVariable
    \/ ConvertType
    \/ NameGlobalFunction
    \/ NameStaticFunction
    \/ NameMethod
    \/ WrapGlobalFunction
    \/ WrapStaticFunction
    \/ WrapMethod

Spec == Init /\ [][Next]_vars

-----------------------------------------------------------------------------
(* Properties *)

ConvertedDone == op = "convert" /\ converted.status # "notrun"

TypeDone == op = "convert" /\ asType.status # "notrun"

NoUnbindableQualifier ==
    ~type.IsRvalueReference /\ ~type.IsDoublePointer /\ ~type.IsRefToPointer

cppTypeName == type.GetNameWithTemplateParams

\* C1: a signature with an rvalue-reference, double-pointer or
\* reference-to-pointer qualifier is rejected by CppVariableToAS and by
\* CppTypeToAS, whatever its base name, usage, default value and catalog.
C1_UnbindableQualifiersFail ==
    (type.IsRvalueReference \/ type.IsDoublePointer \/ type.IsRefToPointer) =>
        /\ ConvertedDone => converted.status = "exception"
        /\ TypeDone => asType.status = "exception"

\* a void return that is a reference to pointer, and nothing else, has been
\* rejected by both converters
C1_Witness ==
    /\ ConvertedDone /\ TypeDone
    /\ converted.status = "exception" /\ asType.status = "exception"
    /\ cppTypeName = "void" /\ usage = FunctionReturn /\ type.IsRefToPointer
    /\ ~type.IsRvalueReference /\ ~type.IsDoublePointer

\* the signature matches one of the rules of CppVariableToAS that produce a
\* native override (the container and single-owner-handle rules)
HasNativeOverrideRule ==
    LET isSequence(prefix, suffix) == regex_match(cppTypeName, prefix, suffix).size = 2
    IN
    \/ /\ usage = FunctionReturn
       /\ \/ cppTypeName \in {"Vector<String>", "StringVector"} /\ ~type.IsPointer
          \/ isSequence("SharedPtr<", ">")
          \/ isSequence("Vector<SharedPtr<", ">>")
          \/ isSequence("PODVector<", "*>")
          \/ isSequence("PODVector<", ">") /\ type.IsConst = type.IsReference
    \/ /\ usage = FunctionParameter /\ type.IsConst /\ type.IsReference
       /\ \/ cppTypeName = "Vector<String>"
          \/ isSequence("PODVector<", ">")
          \/ isSequence("PODVector<", "*>")
          \/ isSequence("Vector<SharedPtr<", ">>")

\* C2: for a signature without a native-override rule, CppTypeToAS accepts
\* exactly when CppVariableToAS with an empty default value accepts.
C2_TypeAcceptsIffVariableAccepts ==
    (ConvertedDone /\ TypeDone /\ defaultValue = "" /\ ~HasNativeOverrideRule) =>
        (asType.status = "ok" <=> converted.status = "ok")

\* element types of the modelled SharedPtr<T> and their script names
C3_ScriptName == [Node |-> "Node", char |-> "int8", WorkItem |-> "WorkItem"]

\* C3: a returned SharedPtr<T> converts to scriptName(T)@+ with native
\* override T* and the glue statement "return result.Detach();" (one line),
\* unless T is WorkItem, which is rejected.
C3_SharedPtrReturn ==
    (ConvertedDone /\ usage = FunctionReturn /\ NoUnbindableQualifier) =>
        \A T \in DOMAIN C3_ScriptName :
            cppTypeName = "SharedPtr<" \o T \o ">" =>
                IF T = "WorkItem" THEN converted.status = "exception"
                ELSE /\ converted.status = "ok"
                     /\ converted.asDeclaration_ = C3_ScriptName[T] \o "@+"
                     /\ converted.newCppDeclaration_ = T \o "*"
                     /\ converted.glue_ = "return result.Detach();" \o "\n"

\* SharedPtr<Node> has been converted as a return type
C3_Witness ==
    /\ ConvertedDone /\ usage = FunctionReturn /\ NoUnbindableQualifier
    /\ cppTypeName = "SharedPtr<Node>"
    /\ converted.asDeclaration_ = "Node@+"
    /\ converted.newCppDeclaration_ = "Node*"

\* a single-pointer parameter whose base name is a catalog class that is not
\* internal, not NO_BIND and not an alias
C4_PointerToCatalogClass ==
    /\ op = "convert" /\ usage = FunctionParameter
    /\ type.IsPointer /\ ~type.IsReference /\ NoUnbindableQualifier
    /\ cppTypeName \in DOMAIN classesByName_
    /\ ~classesByName_[cppTypeName].IsInternal
    /\ Find(classesByName_[cppTypeName].GetComment, "NO_BIND") = 0
    /\ cppTypeName \notin usings_

C4_NotHandleClass ==
    /\ ~classesByName_[cppTypeName].IsRefCounted
    /\ Find(classesByName_[cppTypeName].GetComment, "FAKE_REF") = 0

C4_RefCountedAccepted ==
    /\ ConvertedDone =>
        /\ converted.status = "ok"
        /\ defaultValue = "" => converted.asDeclaration_ = cppTypeName \o "@+"
        /\ SubSeq(converted.asDeclaration_, 1, Len(cppTypeName) + 2)
             = cppTypeName \o "@+"
    /\ TypeDone => asType = [status |-> "ok", value |-> cppTypeName \o "@+"]

\* C4 as claimed: every such class is rejected when it is neither ref-counted
\* nor FAKE_REF, and converts to "<class>@+" when it is ref-counted.
C4_AsClaimed ==
    C4_PointerToCatalogClass =>
        /\ C4_NotHandleClass =>
            /\ ConvertedDone => converted.status = "exception"
            /\ TypeDone => asType.status = "exception"
        /\ classesByName_[cppTypeName].IsRefCounted => C4_RefCountedAccepted

\* C4 (amended): the same, where the ref-counted half holds for class names
\* other than Context that contain no scope separator.
C4_PointerParameter ==
    C4_PointerToCatalogClass =>
        /\ C4_NotHandleClass =>
            /\ ConvertedDone => converted.status = "exception"
            /\ TypeDone => asType.status = "exception"
        /\ (/\ classesByName_[cppTypeName].IsRefCounted
            /\ cppTypeName # "Context"
            /\ Find(cppTypeName, "::") = 0) => C4_RefCountedAccepted

\* a pointer to the ref-counted class Node with a default value has been
\* accepted by both converters
C4_Witness ==
    /\ C4_PointerToCatalogClass /\ ConvertedDone /\ TypeDone
    /\ cppTypeName = "Node" /\ classesByName_["Node"].IsRefCounted
    /\ defaultValue = "nullptr"
    /\ converted.asDeclaration_ = "Node@+ = null"
    /\ asType.value = "Node@+"

\* C5: a const Vector<String>& parameter named n always converts, to native
\* override "CScriptArray* n_conv", a glue statement declaring
\* "Vector<String> n" from n_conv, and a declaration without "Vector<".
C5_StringVectorParameter ==
    (/\ ConvertedDone /\ usage = FunctionParameter /\ NoUnbindableQualifier
     /\ cppTypeName = "Vector<String>" /\ type.IsConst /\ type.IsReference) =>
        /\ converted.status = "ok"
        /\ converted.newCppDeclaration_ = "CScriptArray* " \o name \o "_conv"
        /\ converted.glue_ # ""
        /\ Find(converted.glue_,
                "Vector<String> " \o name \o " = ArrayToVector<String>("
                \o name \o "_conv)") # 0
        /\ Find(converted.asDeclaration_, "Vector<") = 0

\* C6: a bare primitive converts, as a parameter and as a return, to exactly
\* its primitive-table name, with no glue and no native override.
C6_BarePrimitive ==
    (/\ ConvertedDone /\ defaultValue = ""
     /\ ~CppPrimitiveTypeToAS(cppTypeName).thrown
     /\ ~type.IsConst /\ ~type.IsReference /\ ~type.IsPointer
     /\ NoUnbindableQualifier) =>
        converted = [status |-> "ok",
                     asDeclaration_ |-> CppPrimitiveTypeToAS(cppTypeName).value,
                     newCppDeclaration_ |-> "", glue_ |-> ""]

\* a bare "unsigned long" parameter has been converted to "ulong"
C6_Witness ==
    /\ ConvertedDone /\ defaultValue = ""
    /\ ~type.IsConst /\ ~type.IsReference /\ ~type.IsPointer
    /\ NoUnbindableQualifier
    /\ cppTypeName = "unsigned long" /\ usage = FunctionParameter
    /\ converted.asDeclaration_ = "ulong"

\* the name synthesized for the i-th overload ends in suffix
NameEndsIn(i, suffix) ==
    /\ Len(wrapperNames[i]) >= Len(suffix)
    /\ SubSeq(wrapperNames[i], Len(wrapperNames[i]) - Len(suffix) + 1,
              Len(wrapperNames[i])) = suffix

\* C7 as claimed: the wrapper name of a function without parameters ends in
\* "_void", for every kind of function and both values of templateVersion.
C7_AsClaimed ==
    op = "name" =>
        \A i \in 1..Len(wrapperNames) :
            Len(overloads[i].GetParams) = 0 => NameEndsIn(i, "_void")

\* C7 (amended): the name ends in "_void", except for the template version
\* of a method wrapper, whose name ends in "_void_template".
C7_VoidSuffix ==
    op = "name" =>
        \A i \in 1..Len(wrapperNames) :
            Len(overloads[i].GetParams) = 0 =>
                IF overloads[i].kind = "method" /\ templateVersion
                THEN NameEndsIn(i, "_void_template")
                ELSE NameEndsIn(i, "_void")

\* a method without parameters has been named in its template version
C7_Witness ==
    /\ op = "name" /\ Len(wrapperNames) = 2
    /\ overloads[2].kind = "method" /\ templateVersion
    /\ Len(overloads[2].GetParams) = 0
    /\ wrapperNames[2] = "Scene_Find_void_template"

\* C8: two overloads of one name in one class or namespace with different
\* parameter type lists get different wrapper names.
C8_CollisionFree ==
    (op = "name" /\ Len(wrapperNames) = 2) =>
        (overloads[1].GetParams # overloads[2].GetParams
            => wrapperNames[1] # wrapperNames[2])

\* number of occurrences of substr in str
Count(str, substr) == Cardinality(OccurrencesFrom(str, substr, 1))

RECURSIVE JoinDeclnames(_, _)
\* the original parameter names, in order, separated by ", "
JoinDeclnames(params, i) ==
    IF i > Len(params) THEN ""
    ELSE (IF i # 1 THEN ", " ELSE "") \o params[i].GetDeclname
         \o JoinDeclnames(params, i + 1)

\* the function the wrapper forwards to, as the forwarded call spells it
Callee ==
    IF fn.kind = "global" THEN fn.GetName
    ELSE IF fn.kind = "static" THEN fn.GetClassName \o "::" \o fn.GetName
    ELSE "ptr->" \o fn.GetName

\* the text between the parentheses of the forwarded call
ForwardedArguments ==
    LET open == " " \o Callee \o "("
        start == Find(wrapper.text, open) + Len(open)
        stop == FindFrom(wrapper.text, ");\n", start)
    IN SubSeq(wrapper.text, start, stop - 1)

\* C9: a wrapper generated from successful conversions forwards exactly the
\* original parameters, in order and by their original names, and has as
\* many #endif as #ifdef, the #ifdef first.
C9_ArgumentsAndGuards ==
    (op = "wrapper" /\ wrapper.status = "ok") =>
        /\ Count(wrapper.text, " " \o Callee \o "(") = 1
        /\ ForwardedArguments = JoinDeclnames(fn.GetParams, 1)
        /\ Count(wrapper.text, "#ifdef") = Count(wrapper.text, "#endif")
        /\ Count(wrapper.text, "#ifdef") <= 1
        /\ Count(wrapper.text, "#ifdef") = 1 =>
               Find(wrapper.text, "#ifdef") < Find(wrapper.text, "#endif")

\* a guarded method with two parameters, one of them converted through a
\* native override, has been wrapped
C9_Witness ==
    /\ op = "wrapper" /\ wrapper.status = "ok"
    /\ fn.kind = "method" /\ fn.InsideDefine # ""
    /\ Len(fn.GetParams) = 2
    /\ fn.GetParams[1].GetType.GetNameWithTemplateParams = "Vector<String>"
    /\ ForwardedArguments = "names, count"
    /\ Count(wrapper.text, "#endif") = 1

\* C10: a wrapper whose declaration is behind guard macro G starts with
\* "#ifdef G" and lies wholly between it and the "#endif"; a wrapper without
\* a guard macro has neither; for free functions, static and instance methods.
C10_GuardWrapsWrapper ==
    (op = "wrapper" /\ wrapper.status = "ok") =>
        IF fn.InsideDefine # ""
        THEN /\ SubSeq(wrapper.text, 1, Len(fn.InsideDefine) + 8)
                  = "#ifdef " \o fn.InsideDefine \o "\n"
             /\ Count(wrapper.text, "#ifdef") = 1
             /\ Count(wrapper.text, "#endif") = 1
             /\ Find(wrapper.text, "}\n#endif\n") # 0
             /\ Count(wrapper.text, "}") = 1
        ELSE /\ Count(wrapper.text, "#ifdef") = 0
             /\ Count(wrapper.text, "#endif") = 0

\* the first characters of the glue statement of the conversion result
GlueBegins(prefix) ==
    /\ Len(converted.glue_) >= Len(prefix)
    /\ SubSeq(converted.glue_, 1, Len(prefix)) = prefix

\* C11: a successful conversion has a non-empty script declaration; a
\* non-empty native override comes with a glue statement that, for a
\* parameter, declares a local of the original type under the original
\* parameter name and, for a return, begins with a return statement; a
\* result of the general fallback has neither native override nor glue.
C11_OverrideHasGlue ==
    (ConvertedDone /\ converted.status = "ok") =>
        /\ converted.asDeclaration_ # ""
        /\ converted.newCppDeclaration_ # "" =>
            /\ converted.glue_ # ""
            /\ usage = FunctionParameter =>
                   GlueBegins("    " \o cppTypeName \o " " \o name \o " = ")
            /\ usage = FunctionReturn => GlueBegins("return ")
        /\ ~HasNativeOverrideRule =>
            /\ converted.newCppDeclaration_ = ""
            /\ converted.glue_ = ""

\* a const PODVector<int>& parameter has been converted through a native
\* override whose glue declares the local "names"
C11_Witness ==
    /\ ConvertedDone /\ converted.status = "ok"
    /\ usage = FunctionParameter /\ cppTypeName = "PODVector<int>"
    /\ converted.newCppDeclaration_ = "CScriptArray* names_conv"
    /\ converted.glue_
         = "    PODVector<int> names = ArrayToPODVector<int>(names_conv);\n"

\* the element types of the modelled Vector<SharedPtr<T>> and their script names
C12_ScriptName == [Node |-> "Node", WorkItem |-> "WorkItem"]

\* C12: a returned Vector<SharedPtr<T>> is rejected when T is WorkItem, as a
\* returned SharedPtr<T> is; otherwise it converts to "Array<scriptName(T)@>@"
\* with native override "CScriptArray*" and a glue statement that returns the
\* converted handle array.
C12_HandleSequenceReturn ==
    (ConvertedDone /\ usage = FunctionReturn /\ NoUnbindableQualifier) =>
        \A T \in DOMAIN C12_ScriptName :
            cppTypeName = "Vector<SharedPtr<" \o T \o ">>" =>
                IF T = "WorkItem" THEN converted.status = "exception"
                ELSE /\ converted.status = "ok"
                     /\ converted.asDeclaration_
                          = "Array<" \o C12_ScriptName[T] \o "@>@"
                     /\ converted.newCppDeclaration_ = "CScriptArray*"
                     /\ GlueBegins("return VectorToHandleArray(result, ")

\* a const-reference parameter of one of the three sequence shapes with a
\* non-empty default value has been handed to CppVariableToAS
C13_SequenceParameterWithDefault ==
    /\ ConvertedDone /\ usage = FunctionParameter /\ NoUnbindableQualifier
    /\ type.IsConst /\ type.IsReference
    /\ cppTypeName \in {"PODVector<int>", "PODVector<Node*>",
                        "Vector<SharedPtr<Node>>", "Vector<SharedPtr<WorkItem>>"}
    /\ defaultValue # ""

\* C13: a const-reference PODVector<T>, PODVector<T*> or Vector<SharedPtr<T>>
\* parameter with a non-empty default value is rejected with an exception the
\* caller can catch: no successful result and no abort.
C13_DefaultValueRejected ==
    C13_SequenceParameterWithDefault => converted.status = "exception"

\* a by-value occurrence of a base name that ends in "Flags"
C14_FlagsByValue ==
    /\ op = "convert"
    /\ ~type.IsConst /\ ~type.IsReference /\ ~type.IsPointer
    /\ NoUnbindableQualifier
    /\ Len(cppTypeName) >= 5
    /\ SubSeq(cppTypeName, Len(cppTypeName) - 4, Len(cppTypeName)) = "Flags"

\* both converters accept the occurrence and convert it to the name itself
\* (CppVariableToAS followed by the default value, if there is one)
C14_ConvertsToItself ==
    /\ ConvertedDone =>
        /\ converted.status = "ok"
        /\ defaultValue = "" => converted.asDeclaration_ = cppTypeName
        /\ SubSeq(converted.asDeclaration_, 1, Len(cppTypeName)) = cppTypeName
    /\ TypeDone => asType = [status |-> "ok", value |-> cppTypeName]

\* C14 as claimed: a by-value occurrence of a name ending in "Flags" is
\* accepted by CppVariableToAS and CppTypeToAS and converts to the name
\* itself, in every catalog state.
C14_AsClaimed == C14_FlagsByValue => C14_ConvertsToItself

\* C14 (amended): the same, provided the name is not a using-alias, not an
\* internal or NO_BIND class of the catalog, and has no scope separator.
C14_FlagsAccepted ==
    (/\ C14_FlagsByValue
     /\ cppTypeName \notin usings_
     /\ cppTypeName \in DOMAIN classesByName_ =>
            /\ ~classesByName_[cppTypeName].IsInternal
            /\ Find(classesByName_[cppTypeName].GetComment, "NO_BIND") = 0
     /\ Find(cppTypeName, "::") = 0) => C14_ConvertsToItself

\* DragFlags, which the catalog does not list, has been converted by value
\* by both converters
C14_Witness ==
    /\ C14_FlagsByValue /\ ConvertedDone /\ TypeDone
    /\ cppTypeName = "DragFlags"
    /\ cppTypeName \notin DOMAIN classesByName_
    /\ cppTypeName \notin enums_ /\ cppTypeName \notin usings_
    /\ converted.asDeclaration_ = "DragFlags"
    /\ asType.value = "DragFlags"

\* the recognised container types of the model
C15_Containers ==
    {"Vector<String>", "PODVector<int>", "PODVector<Node*>",
     "Vector<SharedPtr<Node>>"}

\* a recognised container, without default value, handed to CppVariableToAS
C15_ContainerConverted ==
    /\ ConvertedDone /\ NoUnbindableQualifier /\ ~type.IsPointer
    /\ cppTypeName \in C15_Containers
    /\ defaultValue = ""

C15_ByConstReference == type.IsConst /\ type.IsReference

C15_ByValue == ~type.IsConst /\ ~type.IsReference

=============================================================================
